---- MODULE Spec2Model ----
(***************************************************************************)
(* PhotoWatermark2: the interactive window (src/ui/main_window.py,         *)
(* MainWindow and DraggableOverlay), the background ExportWorker and the   *)
(* coordinate mapper image_to_label / label_to_image.                      *)
(*                                                                         *)
(* A path is a record [parent, stem, suffix]; a decoded image is known by  *)
(* its size.  Python's int() of a float product x * (a / b) is modelled by *)
(* exact truncation toward zero of x*a/b (the two agree for every operand  *)
(* within the bounds used here).                                           *)
(***************************************************************************)
EXTENDS Integers, Sequences, FiniteSets, TLC

\* ------------------------------------------------------------------ bounds
MaxWorkers == 1     \* export runs started in one session
MaxTasks == 3       \* tasks handed to one ExportWorker
MaxEvents == 5      \* user events (clicks, edits, drags, resizes) in one session
MaxDraw == 3        \* largest overlay coordinate followed through window resizes
MaxCoord == 4       \* largest coordinate / size drawn for the mapper check
MaxExportEvents == 3   \* user events in a session of imports and exports only

\* ------------------------------------------------------- files of the world
FileA == [parent |-> "d1", stem |-> "a", suffix |-> ".png"]
FileB == [parent |-> "d2", stem |-> "a", suffix |-> ".png"]
FileG == [parent |-> "d2", stem |-> "g", suffix |-> ".gif"]
Files == {FileA, FileB, FileG}

SUPPORTED_IN == {".jpg", ".jpeg", ".png", ".bmp", ".tif", ".tiff"}

NoImage == <<0, 0>>

\* load_image: the decoded size of a file, NoImage when PIL cannot read it
load_image(p) ==
  IF p = FileA THEN <<2, 2>>
  ELSE IF p = FileB THEN <<6, 6>>
  ELSE NoImage

Decodable(p) == load_image(p) # NoImage

LogoSize == <<2, 1>>
LabelSizes == {<<2, 2>>, <<3, 2>>}
OverlayInitSize == <<100, 30>>
TextValues == {"", "A"}
ScaleValues == {100, 200}
NamingRules == {"keep", "prefix", "suffix"}

\* ------------------------------------------------------------ arithmetic
Abs(n) == IF n < 0 THEN -n ELSE n
Max(a, b) == IF a > b THEN a ELSE b
Min(a, b) == IF a < b THEN a ELSE b

\* Python int(x * (a / b)): truncation toward zero
PyInt(x, a, b) ==
  IF x * a >= 0 THEN (x * a) \div b ELSE -((-(x * a)) \div b)

\* ------------------------------------------------------ coordinate mapper
\* image_to_label(ix, iy) with current image size img and label size lab
image_to_label(ix, iy, img, lab) ==
  IF img = NoImage THEN <<0, 0>>
  ELSE <<IF img[1] # 0 THEN PyInt(ix, lab[1], img[1]) ELSE ix,
         IF img[2] # 0 THEN PyInt(iy, lab[2], img[2]) ELSE iy>>

\* label_to_image(pt) with current image size img and label size lab
label_to_image(pt, img, lab) ==
  IF img = NoImage THEN <<0, 0>>
  ELSE <<IF lab[1] # 0 THEN PyInt(pt[1], img[1], lab[1]) ELSE pt[1],
         IF lab[2] # 0 THEN PyInt(pt[2], img[2], lab[2]) ELSE pt[2]>>

VARIABLES
  images,         \* MainWindow.images: sequence of paths
  current_index,  \* MainWindow.current_index, 1-based; 0 is None
  current_pil,    \* size of MainWindow.current_pil; NoImage is None
  mark_logo_pil,  \* size of the loaded logo; NoImage is None
  text_input,     \* text of the text_input line edit
  logo_scale,     \* value of the logo_scale slider
  label_size,     \* size of preview_label
  overlay,        \* the DraggableOverlay: visible, size, _draw_pos, ...
  export_worker,  \* every ExportWorker created, in creation order;
                  \* MainWindow.export_worker refers to the last one
  files,          \* destination paths written to disk
  dialog,         \* the message box shown by the last UI handler
  nEvents,        \* number of user events handled so far
  budget,         \* length of the session followed: user events, export runs
  edited,         \* history: path |-> settings the user gave while it was selected
  mapIn,          \* inputs of the coordinate mapper check
  render,         \* one pass of the compositing statements over one pixel
  templates       \* the persisted template files: resource/default_templates.json
                  \* and ~/.watermark_app/templates.json, name |-> record

vars == <<images, current_index, current_pil, mark_logo_pil, text_input,
          logo_scale, label_size, overlay, export_worker,
          files, dialog, nEvents, budget, edited, mapIn, render, templates>>

uiVars == <<images, current_index, current_pil, mark_logo_pil, text_input,
            logo_scale, label_size, overlay, dialog, nEvents, budget, edited,
            templates>>

\* ------------------------------------------------------- widget defaults
FontSizeDefault == 36
StrokeWidthDefault == 0
RotationDefault == 0
OpacityDefault == 60
LogoOpacityDefault == 60
JpegQualityDefault == 95
EdgeMargin == 20
PrefixDefault == "wm_"
SuffixDefault == "_watermarked"

\* font metrics of the overlay widget's font (environment): one pixel per
\* character, one pixel high
TextAdvance(t) == Len(t)
FontHeight == 1

\* The widget values a handler reads, as one record
View(text, scale, logo, pil, lab, ov) ==
  [text |-> text, scale |-> scale, logo |-> logo,
   pil |-> pil, lab |-> lab, ov |-> ov]

CurrentView ==
  View(text_input, logo_scale, mark_logo_pil, current_pil,
       label_size, overlay)

\* MainWindow._build_scaled_logo_pil: size of the resized logo, NoImage for None
_build_scaled_logo_pil(logo, scale) ==
  IF logo = NoImage THEN NoImage
  ELSE <<Max(1, PyInt(logo[1], scale, 100)), Max(1, PyInt(logo[2], scale, 100))>>

\* MainWindow._gather_current_settings; opacities and scales are kept in
\* hundredths (the slider value) instead of the float value / 100.0
_gather_current_settings(s) ==
  LET use_text == s.text # ""
      use_image == s.logo # NoImage
      scaled == _build_scaled_logo_pil(s.logo, s.scale)
      tex_pos == IF s.pil # NoImage
                   THEN <<s.pil[1] - EdgeMargin, s.pil[2] - EdgeMargin>>
                   ELSE <<0, 0>>
      mark_pos == IF s.pil # NoImage /\ s.logo # NoImage
                    THEN <<s.pil[1] - scaled[1] - EdgeMargin,
                           s.pil[2] - scaled[2] - EdgeMargin>>
                    ELSE <<0, 0>>
      moved == s.ov.visible
      ipt == label_to_image(s.ov.draw_pos, s.pil, s.lab)
  IN [use_text_mark |-> use_text,
      text |-> s.text,
      font_size |-> FontSizeDefault,
      opacity |-> OpacityDefault,
      stroke_width |-> StrokeWidthDefault,
      text_pos |-> IF moved /\ use_text THEN ipt ELSE tex_pos,
      anchor |-> "rd",
      text_rotation |-> RotationDefault,
      use_image_mark |-> use_image,
      mark_img |-> scaled,
      mark_scale |-> s.scale,
      mark_opacity |-> LogoOpacityDefault,
      mark_rotation |-> RotationDefault,
      mark_pos |-> IF moved /\ use_image THEN ipt ELSE mark_pos,
      resize_mode |-> "None",
      jpeg_quality |-> JpegQualityDefault]

\* `if position:` in set_text / set_image: a QPoint is false when it is null
PointIsNull(pt) == pt[1] = 0 /\ pt[2] = 0

\* DraggableOverlay.set_image
set_image(ov, pixmap, position) ==
  [ov EXCEPT !.mode = "image", !.pixmap = pixmap,
             !.draw_pos = IF PointIsNull(position) THEN @ ELSE position]

\* DraggableOverlay.set_text
set_text(ov, text, position) ==
  [ov EXCEPT !.mode = "text", !.text = text,
             !.draw_pos = IF PointIsNull(position) THEN @ ELSE position]

\* MainWindow.update_preview: the overlay after the call
update_preview(s) ==
  IF s.pil = NoImage THEN s.ov
  ELSE
    LET ctx == _gather_current_settings(s)
        ov1 == IF ctx.use_image_mark /\ s.logo # NoImage
                 THEN set_image(s.ov, _build_scaled_logo_pil(s.logo, s.scale),
                        image_to_label(ctx.mark_pos[1], ctx.mark_pos[2], s.pil, s.lab))
                 ELSE [s.ov EXCEPT !.pixmap = NoImage]
        ov2 == IF ctx.use_text_mark /\ ctx.text # ""
                 THEN set_text(ov1, ctx.text,
                        image_to_label(ctx.text_pos[1], ctx.text_pos[2], s.pil, s.lab))
                 ELSE [ov1 EXCEPT !.text = ""]
    IN ov2

\* QSize.scaled(bound, Qt.KeepAspectRatio), as used by QPixmap.scaled
QtScaled(size, bound) ==
  LET rw == (bound[2] * size[1]) \div size[2]
  IN IF rw <= bound[1] THEN <<rw, bound[2]>>
     ELSE <<bound[1], (bound[1] * size[2]) \div size[1]>>

\* DraggableOverlay.resizeEvent: _draw_pos after the overlay goes from old to new
OverlayResize(ov, new) ==
  [ov EXCEPT !.size = new,
             !.draw_pos = IF ov.size[1] > 0 /\ ov.size[2] > 0
                            THEN <<PyInt(@[1], new[1], ov.size[1]),
                                   PyInt(@[2], new[2], ov.size[2])>>
                            ELSE @]

\* MainWindow.show_preview: the overlay takes the label's geometry and is shown;
\* a hidden overlay gets its resize event on show, with an invalid old size
show_preview(ov, lab) ==
  IF ov.visible
    THEN (IF ov.size = lab THEN ov ELSE OverlayResize(ov, lab))
    ELSE [ov EXCEPT !.size = lab, !.visible = TRUE]

\* history of the settings the user gave to the selected image
Touch(ed, imgs, idx, text) ==
  IF idx = 0 THEN ed
  ELSE [p \in (DOMAIN ed) \cup {imgs[idx]} |->
          IF p = imgs[idx] THEN text ELSE ed[p]]

\* ------------------------------------------------------------ initial state
EmptyMap == [p \in {} |-> ""]

\* the window after MainWindow.__init__
InitWindow ==
  /\ images = <<>>
  /\ current_index = 0
  /\ current_pil = NoImage
  /\ mark_logo_pil = NoImage
  /\ text_input = ""
  /\ logo_scale = 100
  /\ label_size = <<2, 2>>
  /\ overlay = [visible |-> FALSE, size |-> OverlayInitSize, draw_pos |-> <<0, 0>>,
                mode |-> "text", text |-> "", pixmap |-> NoImage]
  /\ files = {}
  /\ dialog = "none"
  /\ nEvents = 0
  /\ edited = EmptyMap
  /\ templates = [resource |-> EmptyMap, config |-> EmptyMap]

Init ==
  /\ InitWindow
  /\ export_worker = <<>>
  /\ mapIn = <<>>
  /\ render = <<>>
  /\ budget = [events |-> MaxEvents, workers |-> MaxWorkers]

\* the same window, followed for one more user event and one more export run
InitLong ==
  /\ InitWindow
  /\ export_worker = <<>>
  /\ mapIn = <<>>
  /\ render = <<>>
  /\ budget = [events |-> MaxEvents + 1, workers |-> MaxWorkers + 1]

\* ------------------------------------------------------- interactive flow
\* every handler below is entered from the event loop for one user event
UserEvent ==
  /\ dialog # "closed"
  /\ nEvents < budget.events
  /\ nEvents' = nEvents + 1
  /\ budget' = budget

InList(p, seq) == \E k \in DOMAIN seq : seq[k] = p

RECURSIVE AppendNew(_, _)
\* the loop of import_images over the files the dialog returned
AppendNew(imgs, picked) ==
  IF picked = <<>> THEN imgs
  ELSE LET p == Head(picked)
       IN AppendNew(IF p.suffix \in SUPPORTED_IN /\ ~InList(p, imgs)
                      THEN Append(imgs, p) ELSE imgs,
                    Tail(picked))

\* the import dialog returns one file or two
Picks ==
  {<<p>> : p \in Files} \cup {<<p, q>> : p \in Files, q \in Files}

\* MainWindow.import_images
import_images(picked) ==
  /\ UserEvent
  /\ images' = AppendNew(images, picked)
  /\ dialog' = "none"
  /\ UNCHANGED <<current_index, current_pil, mark_logo_pil, text_input,
                 logo_scale, label_size, overlay,
                 export_worker, files, edited, mapIn, render, templates>>

\* MainWindow.clear_list
clear_list ==
  /\ UserEvent
  /\ images' = <<>>
  /\ current_index' = 0
  /\ current_pil' = NoImage
  /\ overlay' = [overlay EXCEPT !.visible = FALSE]
  /\ edited' = EmptyMap
  /\ dialog' = "none"
  /\ UNCHANGED <<mark_logo_pil, text_input, logo_scale,
                 label_size, export_worker, files, mapIn, render, templates>>

\* MainWindow.on_select_file for row idx; load_image raises on an unreadable
\* file after current_index was assigned
on_select_file(idx) ==
  /\ UserEvent
  /\ idx \in 1..Len(images)
  /\ idx # current_index
  /\ current_index' = idx
  /\ IF Decodable(images[idx])
       THEN /\ current_pil' = load_image(images[idx])
            /\ overlay' = show_preview(overlay, label_size)
       ELSE UNCHANGED <<current_pil, overlay>>
  /\ dialog' = "none"
  /\ UNCHANGED <<images, mark_logo_pil, text_input, logo_scale,
                 label_size, export_worker, files, edited, mapIn, render, templates>>

\* text_input.textChanged -> update_preview
on_text_changed(t) ==
  /\ UserEvent
  /\ t # text_input
  /\ text_input' = t
  /\ overlay' = update_preview(View(t, logo_scale, mark_logo_pil,
                                    current_pil, label_size, overlay))
  /\ edited' = Touch(edited, images, current_index, t)
  /\ dialog' = "none"
  /\ UNCHANGED <<images, current_index, current_pil, mark_logo_pil,
                 logo_scale, label_size, export_worker, files, mapIn, render, templates>>

\* logo_scale.valueChanged -> update_preview (the font_size,
\* stroke_spin and rotation sliders are connected the same way and are held
\* at their defaults)
on_logo_scale_changed(v) ==
  /\ UserEvent
  /\ v # logo_scale
  /\ logo_scale' = v
  /\ overlay' = update_preview(View(text_input, v, mark_logo_pil,
                                    current_pil, label_size, overlay))
  /\ dialog' = "none"
  /\ UNCHANGED <<images, current_index, current_pil, mark_logo_pil, text_input,
                 label_size, export_worker, files, edited, mapIn, render, templates>>

\* MainWindow.load_logo with a file chosen in the dialog
load_logo ==
  /\ UserEvent
  /\ mark_logo_pil' = LogoSize
  /\ overlay' = update_preview(
        View(text_input, logo_scale, LogoSize, current_pil,
             label_size,
             set_image(overlay, QtScaled(LogoSize, overlay.size), <<0, 0>>)))
  /\ dialog' = "none"
  /\ UNCHANGED <<images, current_index, current_pil, text_input,
                 logo_scale, label_size, export_worker, files, edited, mapIn, render, templates>>

Deltas == ({-1, 0, 1} \X {-1, 0, 1}) \ {<<0, 0>>}

\* DraggableOverlay.mouseMoveEvent while dragging, the pointer moved by delta
mouseMoveEvent(delta) ==
  /\ UserEvent
  /\ overlay.visible
  /\ LET cw == IF overlay.pixmap # NoImage THEN overlay.pixmap[1]
               ELSE (IF TextAdvance(overlay.text) # 0
                       THEN TextAdvance(overlay.text) ELSE 1)
         ch == IF overlay.pixmap # NoImage THEN overlay.pixmap[2] ELSE FontHeight
         max_x == Max(0, overlay.size[1] - cw)
         max_y == Max(0, overlay.size[2] - ch)
         new == <<Max(0, Min(overlay.draw_pos[1] + delta[1], max_x)),
                  Max(0, Min(overlay.draw_pos[2] + delta[2], max_y))>>
     IN overlay' = [overlay EXCEPT !.draw_pos = new]
  /\ dialog' = "none"
  /\ UNCHANGED <<images, current_index, current_pil, mark_logo_pil, text_input,
                 logo_scale, label_size, export_worker, files,
                 edited, mapIn, render, templates>>

\* the window is resized and the layout gives preview_label the size lab:
\* MainWindow.resizeEvent
resizeEvent(lab) ==
  /\ UserEvent
  /\ lab # label_size
  /\ label_size' = lab
  /\ IF overlay.visible /\ current_pil # NoImage
       THEN /\ overlay' = update_preview(
                   View(text_input, logo_scale, mark_logo_pil,
                        current_pil, lab, OverlayResize(overlay, lab)))
            /\ overlay'.draw_pos[1] <= MaxDraw
            /\ overlay'.draw_pos[2] <= MaxDraw
       ELSE UNCHANGED overlay
  /\ dialog' = "none"
  /\ UNCHANGED <<images, current_index, current_pil, mark_logo_pil, text_input,
                 logo_scale, export_worker, files, edited, mapIn, render, templates>>

\* the nine preset buttons: pos_coord of LT, CT, RT, LC, CC, RC, LB, CB, RB
Presets == {-1, 0, 1} \X {-1, 0, 1}

\* size of the watermark as on_pos_preset_clicked measures it: the scaled logo,
\* else the QFontMetrics bounding rect of the text, else (100, 30)
PresetBox(s) ==
  IF s.logo # NoImage /\ s.ov.mode = "image"
    THEN _build_scaled_logo_pil(s.logo, s.scale)
  ELSE IF s.text # "" THEN <<TextAdvance(s.text), FontHeight>>
  ELSE <<100, 30>>

\* target_x / target_y of on_pos_preset_clicked for one axis: c is the
\* coordinate of the button, w the image extent, m the watermark extent
PresetTarget(c, w, m) ==
  IF c = -1 THEN 0
  ELSE IF c = 0 THEN (w - m) \div 2
  ELSE w - m

\* MainWindow.on_pos_preset_clicked for the button with pos_coord coords
on_pos_preset_clicked(coords) ==
  /\ UserEvent
  /\ IF current_pil = NoImage
       THEN UNCHANGED overlay
       ELSE LET box == PresetBox(CurrentView)
                tx == PresetTarget(coords[1], current_pil[1], box[1])
                ty == PresetTarget(coords[2], current_pil[2], box[2])
                label_pt == image_to_label(tx, ty, current_pil, label_size)
            IN overlay' = update_preview(
                 View(text_input, logo_scale, mark_logo_pil, current_pil,
                      label_size, [overlay EXCEPT !.draw_pos = label_pt]))
  /\ dialog' = "none"
  /\ UNCHANGED <<images, current_index, current_pil, mark_logo_pil, text_input,
                 logo_scale, label_size, export_worker, files, edited, mapIn, render, templates>>

\* ------------------------------------------------- compositing geometry
\* apply_image_watermark: size of the mark that is pasted; a scale other than
\* 1.0 resizes the mark it was handed (scale in hundredths)
PastedMarkSize(mark, scale) ==
  IF scale # 100
    THEN <<PyInt(mark[1], scale, 100), PyInt(mark[2], scale, 100)>>
    ELSE mark

\* right and bottom edge of the logo in the exported image: layer.paste puts
\* the top-left corner of the mark at mark_pos
LogoEdges(ctx) ==
  LET sz == PastedMarkSize(ctx.mark_img, ctx.mark_scale)
  IN <<ctx.mark_pos[1] + sz[1], ctx.mark_pos[2] + sz[2]>>

\* right and bottom edge of the text in the exported image: draw.text with
\* anchor "rd" puts the right end of the descender line at text_pos
TextEdges(ctx) == ctx.text_pos

\* ------------------------------------------------------------ templates
MaxTplEvents == 7
TemplateNames == {"t1"}

Put(m, k, v) == [x \in (DOMAIN m) \cup {k} |-> IF x = k THEN v ELSE m[x]]

\* the dict that is serialized: the gathered settings; at and placed record
\* the image and the overlay position the user saw when it was written
TemplateRecord ==
  [data |-> _gather_current_settings(CurrentView),
   at |-> current_pil,
   placed |-> [draw_pos |-> overlay.draw_pos, lab |-> label_size]]

\* MainWindow.save_template with the name typed into the dialog; json.dumps
\* raises on the PIL image of a loaded logo before anything is written
save_template(name) ==
  /\ UserEvent
  /\ IF mark_logo_pil # NoImage
       THEN /\ dialog' = "none"
            /\ UNCHANGED templates
       ELSE /\ dialog' = "saved"
            /\ templates' = [templates EXCEPT
                               !.resource = Put(@, name, TemplateRecord)]
  /\ UNCHANGED <<images, current_index, current_pil, mark_logo_pil, text_input,
                 logo_scale, label_size, overlay, export_worker, files,
                 edited, mapIn, render>>

\* MainWindow.load_selected_template for the selected name:
\* _apply_settings_dict (setText emits textChanged -> update_preview, then
\* set_draw_pos of the stored text_pos mapped with the current image), then
\* update_preview
load_selected_template(name) ==
  /\ UserEvent
  /\ name \in DOMAIN templates.resource
  /\ LET d == templates.resource[name].data
         ov0 == IF d.text # text_input
                  THEN update_preview(View(d.text, logo_scale, mark_logo_pil,
                                           current_pil, label_size, overlay))
                  ELSE overlay
         ov1 == IF current_pil # NoImage
                  THEN [ov0 EXCEPT !.draw_pos =
                          image_to_label(d.text_pos[1], d.text_pos[2],
                                         current_pil, label_size)]
                  ELSE ov0
     IN /\ text_input' = d.text
        /\ overlay' = update_preview(View(d.text, logo_scale, mark_logo_pil,
                                          current_pil, label_size, ov1))
        /\ edited' = IF d.text # text_input
                       THEN Touch(edited, images, current_index, d.text)
                       ELSE edited
  /\ dialog' = "none"
  /\ UNCHANGED <<images, current_index, current_pil, mark_logo_pil,
                 logo_scale, label_size, export_worker, files, mapIn, render,
                 templates>>

\* MainWindow.closeEvent: the gathered settings are written as '__last__';
\* every exception is swallowed; the window is gone afterwards
closeEvent ==
  /\ UserEvent
  /\ dialog' = "closed"
  /\ templates' = IF mark_logo_pil # NoImage THEN templates
                  ELSE [templates EXCEPT
                          !.config = Put(@, "__last__", TemplateRecord)]
  /\ UNCHANGED <<images, current_index, current_pil, mark_logo_pil, text_input,
                 logo_scale, label_size, overlay, export_worker, files,
                 edited, mapIn, render>>

\* --------------------------------------------------- compositing, per pixel
\* A pixel of the decoded base image is opaque and is known by one channel
\* value; a layer pixel is [c, a]: channel value and alpha.  Rotations are 0.
Div255(x) == (2 * x + 255) \div 510

\* Image.new('RGBA', size, (255,255,255,0))
Transparent == [c |-> 255, a |-> 0]

TextColor == 255      \* color default (255, 255, 255)
StrokeFill == 0       \* stroke_fill default (0, 0, 0), an RGB ink: opaque
MarkPixel == [c |-> 50, a |-> 255]   \* an opaque pixel of the logo

\* Image.alpha_composite(base, layer) at one pixel of an opaque base
alpha_composite(dst, src) ==
  IF src.a = 0 THEN dst
  ELSE Div255(src.c * src.a + dst * (255 - src.a))

\* the text layer of apply_text_watermark at a pixel that the glyph fill
\* covers ("fill"), that only the stroke outline covers ("stroke"), or that
\* the text does not reach ("none"); draw.text paints the stroke with
\* stroke_fill first, then the fill with (color, alpha)
TextLayer(cover, opacity, stroke_width) ==
  LET alpha == PyInt(255, Max(0, Min(100, opacity)), 100)
  IN IF cover = "fill" THEN [c |-> TextColor, a |-> alpha]
     ELSE IF cover = "stroke" /\ stroke_width > 0
            THEN [c |-> StrokeFill, a |-> 255]
     ELSE Transparent

\* apply_text_watermark at one pixel
apply_text_watermark(px, cover, opacity, stroke_width) ==
  alpha_composite(px, TextLayer(cover, opacity, stroke_width))

\* apply_image_watermark at one pixel: the alpha band is dimmed by
\* ImageEnhance.Brightness when opacity < 1.0, the mark is pasted into a
\* transparent layer through its own alpha, the layer is composited
apply_image_watermark(px, in_mark, opacity) ==
  LET a == IF opacity < 100 THEN PyInt(MarkPixel.a, opacity, 100) ELSE MarkPixel.a
      layer == IF in_mark
                 THEN [c |-> Div255(MarkPixel.c * a + Transparent.c * (255 - a)),
                       a |-> Div255(a * a + Transparent.a * (255 - a))]
                 ELSE Transparent
  IN alpha_composite(px, layer)

\* ------------------------------------------------------------- export
OutDirs == {"d1", "out"}
Affixes == {"", PrefixDefault, SuffixDefault}

\* Path.name
PathName(p) == p.stem \o p.suffix

\* the naming rule of export_all
ExportName(rule, affix, p) ==
  IF rule = "keep" THEN PathName(p)
  ELSE IF rule = "prefix" THEN affix \o PathName(p)
  ELSE p.stem \o affix \o p.suffix

CollidesWithFirst(imgs, out_dir) ==
  imgs # <<>> /\ imgs[1].parent = out_dir

\* the validation loop of export_all: some source lies in out_dir
CollidesWithSource(imgs, out_dir) ==
  \E k \in DOMAIN imgs : imgs[k].parent = out_dir

\* a text for prefix_input that names a directory: the folder of FileA
DirPrefix == "/d1/"
AffixTexts == Affixes \cup {DirPrefix}

\* the directory a typed prefix starts from, "" when it names none
PrefixDir(affix) == IF affix = DirPrefix THEN "d1" ELSE ""

\* dst = out_dir / name (pathlib): a name that starts at the root replaces
\* out_dir, any other name is placed under it
Destination(out_dir, rule, affix, p) ==
  IF rule = "prefix" /\ PrefixDir(affix) # ""
    THEN [parent |-> PrefixDir(affix), name |-> PathName(p)]
    ELSE [parent |-> out_dir, name |-> ExportName(rule, affix, p)]

\* the task list export_all builds: one (src, dst, ctx.copy()) per image
BuildTasks(imgs, out_dir, rule, affix, ctx) ==
  [k \in DOMAIN imgs |->
     [src |-> imgs[k],
      dst |-> Destination(out_dir, rule, affix, imgs[k]),
      ctx |-> ctx]]

\* ExportWorker.__init__ followed by start(); snapshot and placed record what
\* the window showed at submission
NewWorker(tasks, ctx, ov, lab) ==
  [tasks |-> tasks, i |-> 1, pc |-> "check", cancelled |-> FALSE,
   cancel_at |-> [i |-> 0, pc |-> "none"],
   signals |-> <<>>, saved |-> <<>>, used |-> <<>>,
   snapshot |-> ctx, placed |-> [draw_pos |-> ov.draw_pos, lab |-> lab,
                                 visible |-> ov.visible]]

\* MainWindow.export_all; out_dir = "" is a cancelled folder dialog
export_all(out_dir, rule, affix, allow) ==
  /\ UserEvent
  /\ IF images = <<>>
       THEN /\ dialog' = "no_images"
            /\ UNCHANGED export_worker
       ELSE IF out_dir = ""
       THEN /\ dialog' = "none"
            /\ UNCHANGED export_worker
       ELSE IF ~allow /\ CollidesWithSource(images, out_dir)
       THEN /\ dialog' = "validation_error"
            /\ UNCHANGED export_worker
       ELSE /\ Len(export_worker) < budget.workers
            /\ dialog' = "none"
            /\ LET ctx == _gather_current_settings(CurrentView)
               IN export_worker' = Append(export_worker,
                    NewWorker(BuildTasks(images, out_dir, rule, affix, ctx),
                              ctx, overlay, label_size))
  /\ UNCHANGED <<images, current_index, current_pil, mark_logo_pil, text_input,
                 logo_scale, label_size, overlay, files,
                 edited, mapIn, render, templates>>

\* ------------------------------------------------------------- ExportWorker
Signal(name, val) == [sig |-> name, val |-> val]

ProgressOffByOne(i, total) == ((i - 1) * 100) \div total

\* int(i / total * 100)
ProgressValue(i, total) == (i * 100) \div total

TaskCtxLive(w) == _gather_current_settings(CurrentView)

\* the configuration the loop body reads for task i: ctx of self.tasks[i]
TaskCtx(w) == export_worker[w].tasks[export_worker[w].i].ctx

Running(w) == export_worker[w].pc # "done"

LoopExitsAtEndOnly(r) == r.i > Len(r.tasks)

\* the for loop is left at its top: no task remains, or `if self._is_cancelled: break`
LoopExits(r) == r.i > Len(r.tasks) \/ r.cancelled

\* top of the loop in run(): the loop is left (and the finally clause emits
\* finished) or task i starts
WorkerCheck(w) ==
  /\ w \in DOMAIN export_worker
  /\ export_worker[w].pc = "check"
  /\ IF LoopExits(export_worker[w])
       THEN export_worker' = [export_worker EXCEPT
              ![w].pc = "done",
              ![w].signals = Append(@, Signal("finished", 0))]
       ELSE export_worker' = [export_worker EXCEPT ![w].pc = "task"]
  /\ UNCHANGED <<files, uiVars, mapIn, render>>

AfterRaiseContinue(r) ==
  [r EXCEPT !.pc = "check", !.i = r.i + 1,
            !.signals = Append(@, Signal("error", r.i))]

\* task i raised: except emits error(str(e)), finally emits finished
AfterRaise(r) ==
  [r EXCEPT !.pc = "done",
            !.signals = @ \o <<Signal("error", r.i), Signal("finished", 0)>>]

AfterSaveNoFinish(r, ctx) ==
  [r EXCEPT !.used = Append(@, ctx),
            !.saved = Append(@, r.i),
            !.i = r.i + 1,
            !.pc = IF r.i = Len(r.tasks) THEN "done" ELSE "check",
            !.signals = Append(@, Signal("progress",
                                         ProgressValue(r.i, Len(r.tasks))))]

\* task i was saved: progress is emitted; after the last task the loop ends and
\* finally emits finished
AfterSave(r, ctx) ==
  LET total == Len(r.tasks)
      p == Signal("progress", ProgressValue(r.i, total))
  IN [r EXCEPT !.used = Append(@, ctx),
               !.saved = Append(@, r.i),
               !.i = r.i + 1,
               !.pc = IF r.i = total THEN "done" ELSE "check",
               !.signals = IF r.i = total
                             THEN @ \o <<p, Signal("finished", 0)>>
                             ELSE Append(@, p)]

\* body of the loop for task i: load, composite, resize, mkdir, save, progress.
\* raises is an exception of the environment (unwritable destination, missing
\* font, ...); an unreadable source always raises
WorkerTask(w, raises) ==
  /\ w \in DOMAIN export_worker
  /\ export_worker[w].pc = "task"
  /\ LET r == export_worker[w]
         t == r.tasks[r.i]
     IN IF raises \/ ~Decodable(t.src)
          THEN /\ export_worker' = [export_worker EXCEPT ![w] = AfterRaise(r)]
               /\ UNCHANGED files
          ELSE /\ files' = files \cup {t.dst}
               /\ export_worker' = [export_worker EXCEPT ![w] = AfterSave(r, TaskCtx(w))]
  /\ UNCHANGED <<uiVars, mapIn, render>>

\* ExportWorker.cancel, on the worker MainWindow.export_worker refers to;
\* cancel_at records where run() stood when the flag was set
cancel ==
  /\ export_worker # <<>>
  /\ LET w == Len(export_worker)
         r == export_worker[w]
     IN /\ Running(w)
        /\ ~r.cancelled
        /\ export_worker' = [export_worker EXCEPT
              ![w].cancelled = TRUE,
              ![w].cancel_at = [i |-> r.i, pc |-> r.pc]]
  /\ UNCHANGED <<files, uiVars, mapIn, render>>

\* the message boxes the window shows for a run: error -> critical box,
\* finished -> "export complete" box (the connections made in export_all)
TerminalMessages(w) ==
  SelectSeq(export_worker[w].signals, LAMBDA m : m.sig \in {"error", "finished"})

\* --------------------------------------------------------------- behaviour
\* An export session: import, selection, text edits, drags, exports into a
\* chosen folder, and the workers running their tasks to the end
Next ==
  \/ \E picked \in Picks : import_images(picked)
  \/ clear_list
  \/ \E idx \in 1..Cardinality(Files) : on_select_file(idx)
  \/ \E t \in TextValues : on_text_changed(t)
  \/ \E delta \in Deltas : mouseMoveEvent(delta)
  \/ \E out_dir \in OutDirs \cup {""}, allow \in BOOLEAN :
        export_all(out_dir, "keep", "", allow)
  \/ \E w \in DOMAIN export_worker : WorkerCheck(w)
  \/ \E w \in DOMAIN export_worker : WorkerTask(w, FALSE)

Spec == Init /\ [][Next]_vars

SpecLong == InitLong /\ [][Next]_vars

\* Interactive editing alone: every handler of the preview, no export
NextUI ==
  \/ \E picked \in Picks : import_images(picked)
  \/ clear_list
  \/ \E idx \in 1..Cardinality(Files) : on_select_file(idx)
  \/ \E t \in TextValues : on_text_changed(t)
  \/ \E v \in ScaleValues : on_logo_scale_changed(v)
  \/ load_logo
  \/ \E delta \in Deltas : mouseMoveEvent(delta)
  \/ \E lab \in LabelSizes : resizeEvent(lab)
  \/ \E coords \in Presets : on_pos_preset_clicked(coords)

SpecUI == Init /\ [][NextUI]_vars

\* One ExportWorker constructed over an arbitrary task list and started; the
\* environment may make any task raise and the owner may call cancel()
TaskLists ==
  UNION {[1..n -> Files] : n \in 0..MaxTasks}

InitWorker ==
  /\ InitWindow
  /\ mapIn = <<>>
  /\ render = <<>>
  /\ budget = [events |-> 0, workers |-> 1]
  /\ \E srcs \in TaskLists, rule \in NamingRules, affix \in Affixes :
       LET ctx == _gather_current_settings(CurrentView)
       IN export_worker =
            <<NewWorker(BuildTasks(srcs, "out", rule, affix, ctx), ctx,
                        overlay, label_size)>>

NextWorker ==
  \/ WorkerCheck(1)
  \/ \E raises \in BOOLEAN : WorkerTask(1, raises)
  \/ cancel

SpecWorker == InitWorker /\ [][NextWorker]_vars

\* the started QThread is scheduled and every statement of the loop body
\* returns or raises: run() keeps taking steps while it has one
SpecWorkerFair ==
  /\ InitWorker
  /\ [][NextWorker]_vars
  /\ WF_vars(WorkerCheck(1))
  /\ WF_vars(\E raises \in BOOLEAN : WorkerTask(1, raises))

\* Editing with templates: a position is chosen on one image, saved, and the
\* template is loaded again, possibly with another image selected
InitTpl ==
  /\ InitWindow
  /\ export_worker = <<>>
  /\ mapIn = <<>>
  /\ render = <<>>
  /\ budget = [events |-> MaxTplEvents, workers |-> 0]

NextTpl ==
  \/ \E picked \in Picks : import_images(picked)
  \/ \E idx \in 1..Cardinality(Files) : on_select_file(idx)
  \/ \E t \in TextValues : on_text_changed(t)
  \/ \E delta \in Deltas : mouseMoveEvent(delta)
  \/ \E name \in TemplateNames : save_template(name)
  \/ \E name \in TemplateNames : load_selected_template(name)
  \/ closeEvent

SpecTpl == InitTpl /\ [][NextTpl]_vars

\* Imports and exports alone, under every naming rule and affix text
InitExport ==
  /\ InitWindow
  /\ export_worker = <<>>
  /\ mapIn = <<>>
  /\ render = <<>>
  /\ budget = [events |-> MaxExportEvents, workers |-> MaxWorkers]

NextExport ==
  \/ \E picked \in Picks : import_images(picked)
  \/ \E out_dir \in OutDirs \cup {""}, rule \in NamingRules,
        affix \in AffixTexts, allow \in BOOLEAN :
        export_all(out_dir, rule, affix, allow)
  \/ \E w \in DOMAIN export_worker : WorkerCheck(w)
  \/ \E w \in DOMAIN export_worker : WorkerTask(w, FALSE)

SpecExport == InitExport /\ [][NextExport]_vars

\* The coordinate mapper on its own: an image pixel is mapped to the preview
\* label and back, for every image size and label size within MaxCoord
InitMap ==
  /\ InitWindow
  /\ export_worker = <<>>
  /\ render = <<>>
  /\ budget = [events |-> 0, workers |-> 0]
  /\ \E w \in 1..MaxCoord, h \in 1..MaxCoord, lw \in 1..MaxCoord, lh \in 1..MaxCoord :
       \E x \in 0..(w - 1), y \in 0..(h - 1) :
         mapIn = [img |-> <<w, h>>, lab |-> <<lw, lh>>, pt |-> <<x, y>>,
                  label |-> <<0, 0>>, back |-> <<0, 0>>, step |-> "start"]

\* image_to_label(x, y)
MapToLabel ==
  /\ mapIn.step = "start"
  /\ mapIn' = [mapIn EXCEPT
        !.label = image_to_label(mapIn.pt[1], mapIn.pt[2], mapIn.img, mapIn.lab),
        !.step = "label"]
  /\ UNCHANGED <<export_worker, files, uiVars, render>>

\* label_to_image of the label point
MapToImage ==
  /\ mapIn.step = "label"
  /\ mapIn' = [mapIn EXCEPT
        !.back = label_to_image(mapIn.label, mapIn.img, mapIn.lab),
        !.step = "image"]
  /\ UNCHANGED <<export_worker, files, uiVars, render>>

NextMap == MapToLabel \/ MapToImage

SpecMap == InitMap /\ [][NextMap]_vars

\* The compositing statements of one task of ExportWorker.run on their own,
\* followed at one pixel: the configuration is gathered from widget values
\* drawn from small sets, the opacity sliders and the stroke spin box included
Opacities == {0, 60, 100}
StrokeWidths == {0, 1}
BasePixels == {0, 100}
Covers == {"fill", "stroke", "none"}

TextOverLogo == <<"text", "logo">>

\* the order of the two compositing statements in the loop body
CompositeOrder == <<"logo", "text">>

InitRender ==
  /\ InitWindow
  /\ export_worker = <<>>
  /\ mapIn = <<>>
  /\ budget = [events |-> 0, workers |-> 0]
  /\ \E t \in TextValues, v \in ScaleValues, logo \in {NoImage, LogoSize},
        o \in Opacities, mo \in Opacities, sw \in StrokeWidths,
        base \in BasePixels, cover \in Covers, in_mark \in BOOLEAN :
       render = [ctx |-> [_gather_current_settings(
                            View(t, v, logo, NoImage, label_size, overlay))
                          EXCEPT !.opacity = o, !.mark_opacity = mo,
                                 !.stroke_width = sw],
                 logo |-> logo, cover |-> cover, in_mark |-> in_mark,
                 k |-> 1, px |-> <<base>>, layers |-> <<>>,
                 mark_size |-> NoImage]

\* if ctx.get('use_image_mark') and ctx.get('mark_img'): apply_image_watermark
RenderLogo ==
  /\ render.k <= Len(CompositeOrder)
  /\ CompositeOrder[render.k] = "logo"
  /\ LET c == render.ctx
         px == render.px[Len(render.px)]
     IN render' =
          IF c.use_image_mark /\ c.mark_img # NoImage
            THEN [render EXCEPT
                    !.k = @ + 1,
                    !.px = Append(@, apply_image_watermark(px, render.in_mark,
                                                           c.mark_opacity)),
                    !.layers = Append(@, "logo"),
                    !.mark_size = PastedMarkSize(c.mark_img, c.mark_scale)]
            ELSE [render EXCEPT !.k = @ + 1]
  /\ UNCHANGED <<export_worker, files, uiVars, mapIn>>

\* if ctx.get('use_text_mark'): apply_text_watermark
RenderText ==
  /\ render.k <= Len(CompositeOrder)
  /\ CompositeOrder[render.k] = "text"
  /\ LET c == render.ctx
         px == render.px[Len(render.px)]
     IN render' =
          IF c.use_text_mark
            THEN [render EXCEPT
                    !.k = @ + 1,
                    !.px = Append(@, apply_text_watermark(px, render.cover,
                                        c.opacity, c.stroke_width)),
                    !.layers = Append(@, "text")]
            ELSE [render EXCEPT !.k = @ + 1]
  /\ UNCHANGED <<export_worker, files, uiVars, mapIn>>

NextRender == RenderLogo \/ RenderText

SpecRender == InitRender /\ [][NextRender]_vars

\* ================================================================ claims
Ident(n) == [j \in 1..n |-> j]
DstsUpTo(r, n) == {r.tasks[j].dst : j \in 1..n}
HasError(r) == \E k \in DOMAIN r.signals : r.signals[k].sig = "error"
ProgressOf(r) == SelectSeq(r.signals, LAMBDA m : m.sig = "progress")
Round(n, d) == (2 * n + d) \div (2 * d)

\* C1: when the override flag is unset and the chosen folder is the parent of
\* some imported image (at any position of the list), export_all shows the
\* validation error, creates no worker and writes no file.
C1_ValidationAborts ==
  [][\A out_dir \in OutDirs :
       (/\ export_all(out_dir, "keep", "", FALSE)
        /\ \E k \in 1..Len(images) : images[k].parent = out_dir)
       => /\ export_worker' = export_worker
          /\ files' = files
          /\ dialog' = "validation_error"]_vars

C1_Witness ==
  /\ dialog = "validation_error"
  /\ Len(images) = 2
  /\ images[1].parent # "d1"
  /\ images[2].parent = "d1"

\* C2: a cancel() that arrives between tasks (k = cancel_at.i - 1 tasks are
\* complete, the next one not started) leaves exactly tasks 1..k written and
\* no later task ever starts; a cancel() that arrives while task i runs lets
\* that task finish its write and stops before task i + 1.
C2_CooperativeCancel ==
  LET r == export_worker[1]
      c == r.cancel_at
  IN r.cancelled =>
       /\ c.pc = "check" =>
            /\ r.pc # "task"
            /\ r.i = c.i
            /\ r.saved = Ident(c.i - 1)
            /\ files = DstsUpTo(r, c.i - 1)
       /\ c.pc = "task" =>
            /\ r.pc = "task" => r.i = c.i
            /\ (r.pc # "task" /\ ~HasError(r)) =>
                 /\ r.i = c.i + 1
                 /\ r.saved = Ident(c.i)
                 /\ files = DstsUpTo(r, c.i)

C2_Witness ==
  LET r == export_worker[1]
  IN /\ Len(r.tasks) = 3
     /\ r.pc = "done"
     /\ r.cancelled
     /\ r.cancel_at = [i |-> 3, pc |-> "check"]
     /\ r.saved = <<1, 2>>

\* C3: when task k raises, the error signal is emitted, the run is over with
\* no later task started, and exactly the files of tasks 1..k-1 are on disk;
\* a run that ends early without cancel has emitted the error of its task.
C3_FailureAborts ==
  LET r == export_worker[1]
  IN /\ \A k \in DOMAIN r.signals :
          r.signals[k].sig = "error" =>
            LET e == r.signals[k].val
            IN /\ r.pc = "done"
               /\ r.i = e
               /\ k = e
               /\ r.saved = Ident(e - 1)
               /\ files = DstsUpTo(r, e - 1)
               /\ Len(r.signals) = e + 1
     /\ (r.pc = "done" /\ ~r.cancelled /\ Len(r.saved) < Len(r.tasks)) =>
          \E k \in DOMAIN r.signals :
             r.signals[k] = Signal("error", Len(r.saved) + 1)

C3_Witness ==
  LET r == export_worker[1]
  IN /\ Len(r.tasks) = 3
     /\ r.pc = "done"
     /\ Len(r.signals) = 3
     /\ r.signals[2] = Signal("error", 2)
     /\ files = {r.tasks[1].dst}
     /\ r.tasks[1].dst # r.tasks[2].dst

\* C4: a run shows exactly one terminal message, the completion or the error,
\* never both.
C4_SingleTerminalMessage ==
  /\ Len(TerminalMessages(1)) <= 1
  /\ export_worker[1].pc = "done" => Len(TerminalMessages(1)) = 1

\* C5: never two export workers in progress at the same time.
C5_AtMostOneActive ==
  Cardinality({w \in DOMAIN export_worker : Running(w)}) <= 1

\* C6: every configuration a worker has used, and every configuration its
\* remaining tasks carry, equals the settings gathered at submission, whatever
\* the user edited afterwards.
C6_CopyOnSubmit ==
  \A w \in DOMAIN export_worker :
    LET r == export_worker[w]
    IN /\ \A k \in DOMAIN r.used : r.used[k] = r.snapshot
       /\ \A k \in DOMAIN r.tasks : r.tasks[k].ctx = r.snapshot

C6_Witness ==
  \E w \in DOMAIN export_worker :
    LET r == export_worker[w]
    IN /\ r.used # <<>>
       /\ r.pc = "task"
       /\ r.snapshot.text # text_input
       /\ r.snapshot.text_pos # _gather_current_settings(CurrentView).text_pos

\* C7: the task built for an image carries the settings the user gave to that
\* image while it was selected.
C7_OwnSettings ==
  [][Len(export_worker') > Len(export_worker) =>
       LET r == export_worker'[Len(export_worker')]
       IN \A k \in DOMAIN r.tasks :
            r.tasks[k].src \in DOMAIN edited =>
              r.tasks[k].ctx.text = edited[r.tasks[k].src]]_vars

\* C8: the text position of every task is the relative position of the
\* overlay resolved against the task's own image size (one pixel of
\* quantization allowed).
C8_OwnResolution ==
  \A w \in DOMAIN export_worker :
    LET r == export_worker[w]
    IN \A k \in DOMAIN r.tasks :
         LET t == r.tasks[k]
             sz == load_image(t.src)
         IN (r.placed.visible /\ t.ctx.use_text_mark /\ Decodable(t.src)) =>
              /\ Abs(t.ctx.text_pos[1]
                     - Round(r.placed.draw_pos[1] * sz[1], r.placed.lab[1])) <= 1
              /\ Abs(t.ctx.text_pos[2]
                     - Round(r.placed.draw_pos[2] * sz[2], r.placed.lab[2])) <= 1

\* C9: the progress values of a run are non-decreasing, lie in 0..100, the
\* j-th value is j/n as a percentage (truncated), one value per saved task,
\* and a run that saved all n >= 1 tasks ends on 100.
C9_Progress ==
  LET r == export_worker[1]
      ps == ProgressOf(r)
      n == Len(r.tasks)
  IN /\ Len(ps) = Len(r.saved)
     /\ \A j \in DOMAIN ps :
          /\ ps[j].val \in 0..100
          /\ j > 1 => ps[j - 1].val <= ps[j].val
          /\ ps[j].val * n <= 100 * j
          /\ 100 * j <= (ps[j].val + 1) * n
     /\ (n >= 1 /\ Len(r.saved) = n) => ps[Len(ps)].val = 100

C9_Witness ==
  LET r == export_worker[1]
  IN /\ Len(r.tasks) = 3
     /\ r.pc = "done"
     /\ r.saved = <<1, 2, 3>>
     /\ ProgressOf(r) = <<Signal("progress", 33), Signal("progress", 66),
                          Signal("progress", 100)>>

\* C10: label_to_image(image_to_label(x, y)) is within one image pixel of
\* (x, y), for every image size and preview size.
C10_RoundTrip ==
  mapIn.step = "image" =>
    /\ Abs(mapIn.back[1] - mapIn.pt[1]) <= 1
    /\ Abs(mapIn.back[2] - mapIn.pt[2]) <= 1

\* C11: right after the right-bottom preset is clicked on a selected image,
\* the settings an export would take put the right edge of every enabled
\* watermark (text, logo) at x = W and its bottom edge at y = H, within one
\* pixel.
C11_PresetRB ==
  [][(on_pos_preset_clicked(<<1, 1>>) /\ current_pil # NoImage) =>
       LET ctx == _gather_current_settings(
                    View(text_input', logo_scale', mark_logo_pil', current_pil',
                         label_size', overlay'))
           W == current_pil[1]
           H == current_pil[2]
       IN /\ ctx.use_text_mark =>
               /\ Abs(TextEdges(ctx)[1] - W) <= 1
               /\ Abs(TextEdges(ctx)[2] - H) <= 1
          /\ ctx.use_image_mark =>
               /\ Abs(LogoEdges(ctx)[1] - W) <= 1
               /\ Abs(LogoEdges(ctx)[2] - H) <= 1]_vars

\* C12: a window resize or the selection of another image, made while a
\* watermark position is shown, leaves that position unchanged as a fraction
\* of the image (the image fills the preview, so the fraction is draw_pos over
\* the preview size); one preview pixel of rounding is allowed.
C12_RelativePositionKept ==
  [][(/\ \/ \E lab \in LabelSizes : resizeEvent(lab)
         \/ \E idx \in 1..Cardinality(Files) : on_select_file(idx)
      /\ overlay.visible
      /\ overlay'.visible) =>
       /\ Abs(overlay'.draw_pos[1] * label_size[1]
              - overlay.draw_pos[1] * label_size'[1]) <= label_size[1]
       /\ Abs(overlay'.draw_pos[2] * label_size[2]
              - overlay.draw_pos[2] * label_size'[2]) <= label_size[2]]_vars

\* C13: the logo pasted by an export task has the size of the loaded logo
\* scaled once by the slider value: (max(1, floor(w0*s)), max(1, floor(h0*s))).
C13_LogoScaledOnce ==
  (render.layers # <<>> /\ render.layers[1] = "logo") =>
     render.mark_size =
       <<Max(1, (render.logo[1] * render.ctx.mark_scale) \div 100),
         Max(1, (render.logo[2] * render.ctx.mark_scale) \div 100)>>

\* C14: a watermark composited with opacity 0 leaves the pixel as it was: the
\* logo when the logo opacity is 0, the text when the text opacity is 0,
\* whatever the stroke width.
C14_OpacityZero ==
  \A i \in DOMAIN render.layers :
    (\/ render.layers[i] = "logo" /\ render.ctx.mark_opacity = 0
     \/ render.layers[i] = "text" /\ render.ctx.opacity = 0)
    => render.px[i + 1] = render.px[i]

\* C17: when both paths are enabled the logo is composited first and the text
\* onto the result: the pixel is the text layer over (the logo layer over
\* the base).
C17_LogoBelowText ==
  LET c == render.ctx
  IN (c.use_image_mark /\ c.use_text_mark) =>
       /\ render.layers \in {<<>>, <<"logo">>, <<"logo", "text">>}
       /\ Len(render.layers) = 2 =>
            render.px[3] =
              apply_text_watermark(
                apply_image_watermark(render.px[1], render.in_mark, c.mark_opacity),
                render.cover, c.opacity, c.stroke_width)

C17_Witness ==
  /\ render.layers = <<"logo", "text">>
  /\ render.in_mark
  /\ render.cover = "fill"
  /\ render.px[3] #
       apply_image_watermark(
         apply_text_watermark(render.px[1], render.cover, render.ctx.opacity,
                              render.ctx.stroke_width),
         render.in_mark, render.ctx.mark_opacity)

\* C15: a run over n distinct sources that saved every task without error
\* leaves n distinct files, one per task, under every naming rule.
C15_OneOutputPerSource ==
  \A w \in DOMAIN export_worker :
    LET r == export_worker[w]
        n == Len(r.tasks)
    IN (/\ r.pc = "done"
        /\ ~HasError(r)
        /\ Len(r.saved) = n
        /\ Cardinality({r.tasks[k].src : k \in 1..n}) = n) =>
         /\ DstsUpTo(r, n) \subseteq files
         /\ Cardinality(DstsUpTo(r, n)) = n

\* C19: when the override flag is unset and export_all starts a worker, no
\* task's destination is the path of an imported image, under every naming
\* rule and every prefix/suffix text.
C19_NeverOverwritesSource ==
  [][\A out_dir \in OutDirs, rule \in NamingRules, affix \in AffixTexts :
       (/\ export_all(out_dir, rule, affix, FALSE)
        /\ Len(export_worker') > Len(export_worker)) =>
         LET r == export_worker'[Len(export_worker')]
         IN \A k \in DOMAIN r.tasks, j \in DOMAIN images :
              ~(/\ r.tasks[k].dst.parent = images[j].parent
                /\ r.tasks[k].dst.name = PathName(images[j]))]_vars

\* C16: loading a template puts the watermark at the relative position it had
\* when the template was saved, whatever the resolution of the image selected
\* now (one preview pixel of rounding allowed).
C16_TemplateRelative ==
  [][\A name \in TemplateNames :
       (/\ load_selected_template(name)
        /\ current_pil # NoImage
        /\ templates.resource[name].at # NoImage
        /\ templates.resource[name].data.use_text_mark) =>
         LET was == templates.resource[name].placed
         IN /\ Abs(overlay'.draw_pos[1] * was.lab[1]
                   - was.draw_pos[1] * label_size[1]) <= was.lab[1]
            /\ Abs(overlay'.draw_pos[2] * was.lab[2]
                   - was.draw_pos[2] * label_size[2]) <= was.lab[2]]_vars

\* C18: a call of update_preview that a text edit, a logo-scale change or the
\* window's resize callback triggers leaves the overlay's draw position where
\* it was just before the call (after the overlay's own resize, in the
\* callback).
C18_PreviewKeepsPosition ==
  [][/\ (/\ \/ \E t \in TextValues : on_text_changed(t)
             \/ \E v \in ScaleValues : on_logo_scale_changed(v)
          /\ current_pil # NoImage) =>
            overlay'.draw_pos = overlay.draw_pos
     /\ (/\ \E lab \in LabelSizes : resizeEvent(lab)
         /\ overlay.visible
         /\ current_pil # NoImage) =>
            overlay'.draw_pos = OverlayResize(overlay, label_size').draw_pos]_vars

CountSig(r, name) ==
  Cardinality({k \in DOMAIN r.signals : r.signals[k].sig = name})

\* C20: every run ends (normally, cancelled, after a raise, or with no
\* task); finished is emitted exactly once, by the time run() returns, and is
\* the last signal of the run; error is emitted at most once.
C20_FinishedOnceLast ==
  /\ [](LET r == export_worker[1]
        IN /\ CountSig(r, "finished") = (IF r.pc = "done" THEN 1 ELSE 0)
           /\ CountSig(r, "error") <= 1
           /\ r.pc = "done" => r.signals[Len(r.signals)].sig = "finished")
  /\ <>(export_worker[1].pc = "done")

C20_Witness ==
  LET r == export_worker[1]
  IN /\ Len(r.tasks) = 2
     /\ r.pc = "done"
     /\ r.signals = <<Signal("progress", 50), Signal("error", 2),
                      Signal("finished", 0)>>

====
